---- MODULE Spec2Model ----
(***************************************************************************)
(* The feature extractor of DistributedImagingServices: the SafeQueue      *)
(* hand-off primitive, the receive loop of main, the worker threads and    *)
(* the sender thread, with the keypoint codec they use.                    *)
(*                                                                         *)
(* Two specifications are given over the same variables.                   *)
(*   QueueSpec  one SafeQueue driven by producer threads that call push    *)
(*              and consumer threads that call pop in a loop.              *)
(*   Spec       the extractor process: main, the workers and the sender.   *)
(*                                                                         *)
(* A critical section of SafeQueue (the statements executed while mutex_   *)
(* is held) is one step: it contains no blocking call other than           *)
(* cond_.wait, which releases the mutex atomically with going to sleep.    *)
(* notify_one is called after the lock is released and is a step of its    *)
(* own.                                                                    *)
(***************************************************************************)
EXTENDS Integers, Sequences, FiniteSets, Bags, TLC

\* ------------------------------------------------------------------ bounds
NumProducers == 2   \* producer threads of QueueSpec
NumConsumers == 2   \* consumer threads of QueueSpec
MaxPush      == 2   \* push calls of QueueSpec, all producers together
NumWorkers   == 2   \* worker threads of the extractor
MaxMsgs      == 2   \* inbound messages the upstream publishes
MaxFrames    == 3   \* longest inbound message, in frames
MaxKeypoints == 2   \* longest keypoint vector of CodecSpec

VARIABLES
    pc,        \* thread -> position in its code
    queue_,    \* SafeQueue::queue_, per queue
    waiters,   \* threads asleep in cond_.wait, per queue
    pushed,    \* history: the bag of values pushed, per queue
    popped,    \* history: the bag of pop calls that returned, per queue
    process,   \* "running", "exited" (main returned) or "aborted" (std::terminate)
    inbound,   \* history: the messages the upstream published
    wire,      \* frames published and not yet received by the subscriber
    rcvmore,   \* the subscriber's ZMQ_RCVMORE flag
    name_msg,  \* main's name_msg
    task,      \* worker -> its ImageTask
    result,    \* the sender's ProcessedTask
    sent,      \* the frames the publisher has sent, in order
    log,       \* the lines written to std::cerr, as a set
    codec_in,  \* the keypoints given to serialize_keypoints
    codec_buf, \* the buffer given to deserialize_keypoints
    codec_out  \* what deserialize_keypoints did with it

vars == <<pc, queue_, waiters, pushed, popped, process, inbound, wire, rcvmore,
          name_msg, task, result, sent, log, codec_in, codec_buf, codec_out>>

queueVars == <<queue_, waiters, pushed, popped>>
extractorVars == <<process, inbound, wire, rcvmore, name_msg, task, result, sent, log>>
codecVars == <<codec_in, codec_buf, codec_out>>

\* ----------------------------------------------------------------- threads
MainT     == <<"main", 0>>
SenderT   == <<"sender", 0>>
Workers   == {<<"worker", i>> : i \in 0..(NumWorkers - 1)}
Producers == {<<"producer", i>> : i \in 0..(NumProducers - 1)}
Consumers == {<<"consumer", i>> : i \in 0..(NumConsumers - 1)}

Queues == {"work_queue", "result_queue"}

\* The bytes of an empty std::string, std::vector or zmq::message_t.
NoBytes == <<>>

\* main.cpp lines 38-41 and 204-210: an ImageTask.
ImageTask(name, img) == [filename |-> name, img_buffer |-> img]

\* main.cpp lines 44-48 and 79-82: the ProcessedTask made from task t.
ProcessedTask(t, kps_buffer) ==
    [filename |-> t.filename, img_buffer |-> t.img_buffer, keypoints_buffer |-> kps_buffer]

\* Default-constructed (lines 58 and 111), and what a moved-from one holds.
NoTask   == ImageTask(NoBytes, NoBytes)
NoResult == ProcessedTask(NoTask, NoBytes)

\* deserialize_keypoints has not been called.
NotCalled == [threw |-> FALSE, keypoints |-> <<>>, called |-> FALSE]

\* --------------------------------------------------------------- SafeQueue
\* push, lines 17-20, were the value copied in twice.
SafeQueue_push_twice(q, v) ==
    /\ queue_' = [queue_ EXCEPT ![q] = Append(Append(@, v), v)]
    /\ pushed' = [pushed EXCEPT ![q] = @ (+) SetToBag({v})]

\* push, lines 17-20, were the value put at the head.
SafeQueue_push_front(q, v) ==
    /\ queue_' = [queue_ EXCEPT ![q] = <<v>> \o @]
    /\ pushed' = [pushed EXCEPT ![q] = @ (+) SetToBag({v})]

\* push, lines 17-20: under the lock, queue_.push(std::move(value)).
SafeQueue_push(q, v) ==
    /\ queue_' = [queue_ EXCEPT ![q] = Append(@, v)]
    /\ pushed' = [pushed EXCEPT ![q] = @ (+) SetToBag({v})]

\* push, line 21: cond_.notify_one() wakes one of the threads asleep in wait,
\* whichever the implementation picks, and does nothing when none is asleep.
SafeQueue_notify_lost(q) ==
    waiters' = waiters

SafeQueue_notify_all(q) ==
    waiters' = [waiters EXCEPT ![q] = {}]

SafeQueue_notify_one(q) ==
    IF waiters[q] = {}
    THEN waiters' = waiters
    ELSE \E w \in waiters[q] : waiters' = [waiters EXCEPT ![q] = @ \ {w}]

\* A thread is ready to run the body of pop when it calls it, or when it
\* was asleep in cond_.wait and has been woken (line 27 then takes the lock
\* again and evaluates the predicate again).
PopReady(t, q) ==
    \/ pc[t] = "pop"
    \/ pc[t] = "pop_wait" /\ t \notin waiters[q]

\* What the history keeps of a pop call that returns: the caller and the
\* value it was given.
PopRecord(t, q) == [by |-> t, item |-> Head(queue_[q])]

\* pop, lines 29-31: value = std::move(queue_.front()); queue_.pop(); return.
SafeQueue_take_keeping(t, q) ==
    /\ queue_' = queue_
    /\ popped' = [popped EXCEPT ![q] = @ (+) SetToBag({PopRecord(t, q)})]

SafeQueue_take(t, q) ==
    /\ queue_' = [queue_ EXCEPT ![q] = Tail(@)]
    /\ popped' = [popped EXCEPT ![q] = @ (+) SetToBag({PopRecord(t, q)})]

\* pop, lines 26-31: with the lock held, wait while the queue is empty,
\* else take the head and return; the caller is then at position after.
SafeQueue_pop(t, q, after) ==
    /\ PopReady(t, q)
    /\ IF queue_[q] # <<>>
       THEN /\ SafeQueue_take(t, q)
            /\ waiters' = waiters
            /\ pc' = [pc EXCEPT ![t] = after]
       ELSE /\ waiters' = [waiters EXCEPT ![q] = @ \cup {t}]
            /\ pc' = [pc EXCEPT ![t] = "pop_wait"]
            /\ UNCHANGED <<queue_, popped>>

\* cond_.wait may return with no notification (a spurious wakeup); the
\* predicate of line 27 is then evaluated again.
SpuriousWakeup(q) ==
    /\ process = "running"
    /\ \E t \in waiters[q] : waiters' = [waiters EXCEPT ![q] = @ \ {t}]
    /\ UNCHANGED <<pc, queue_, pushed, popped, extractorVars, codecVars>>

\* ------------------------------------------- QueueSpec: one SafeQueue alone
TheQueue == "work_queue"

\* The number of copies in bag B of the elements of S.
RECURSIVE BagSum(_, _)
BagSum(B, S) ==
    IF S = {} THEN 0
    ELSE LET e == CHOOSE x \in S : TRUE IN B[e] + BagSum(B, S \ {e})

\* The push calls made by producer p, the pop calls that returned to c.
PushesBy(p) ==
    BagSum(pushed[TheQueue], {v \in DOMAIN pushed[TheQueue] : v[1] = p})

PopsBy(c) ==
    BagSum(popped[TheQueue], {e \in DOMAIN popped[TheQueue] : e.by = c})

QInit ==
    /\ pc = [t \in Producers \cup Consumers |->
                IF t \in Producers THEN "idle" ELSE "pop"]
    /\ queue_  = [q \in Queues |-> <<>>]
    /\ waiters = [q \in Queues |-> {}]
    /\ pushed  = [q \in Queues |-> EmptyBag]
    /\ popped  = [q \in Queues |-> EmptyBag]
    /\ process = "running"
    /\ inbound = <<>>
    /\ wire = <<>>
    /\ rcvmore = FALSE
    /\ name_msg = NoBytes
    /\ task = [w \in Workers |-> NoTask]
    /\ result = NoResult
    /\ sent = <<>>
    /\ log = {}
    /\ codec_in = <<>>
    /\ codec_buf = NoBytes
    /\ codec_out = NotCalled

\* A producer thread calls push with its next value: the locked part.
ProducerPush(p) ==
    /\ pc[p] = "idle"
    /\ BagCardinality(pushed[TheQueue]) < MaxPush
    /\ SafeQueue_push(TheQueue, <<p, PushesBy(p) + 1>>)
    /\ pc' = [pc EXCEPT ![p] = "notify"]
    /\ UNCHANGED <<waiters, popped, extractorVars, codecVars>>

\* The producer's notify_one, after the lock is released; push returns.
ProducerNotify(p) ==
    /\ pc[p] = "notify"
    /\ SafeQueue_notify_one(TheQueue)
    /\ pc' = [pc EXCEPT ![p] = "idle"]
    /\ UNCHANGED <<queue_, pushed, popped, extractorVars, codecVars>>

\* A consumer thread calls pop. Its position after the call tells whether
\* the call slept in cond_.wait before it returned.
ConsumerPop(c) ==
    /\ SafeQueue_pop(c, TheQueue,
                     IF pc[c] = "pop_wait" THEN "returned_after_wait" ELSE "returned")
    /\ UNCHANGED <<pushed, extractorVars, codecVars>>

\* The consumer calls pop again.
ConsumerLoop(c) ==
    /\ pc[c] \in {"returned", "returned_after_wait"}
    /\ pc' = [pc EXCEPT ![c] = "pop"]
    /\ UNCHANGED <<queueVars, extractorVars, codecVars>>

QNext ==
    \/ \E p \in Producers : ProducerPush(p)
    \/ \E p \in Producers : ProducerNotify(p)
    \/ \E c \in Consumers : ConsumerPop(c)
    \/ \E c \in Consumers : ConsumerLoop(c)
    \/ SpuriousWakeup(TheQueue)

\* Every thread that can run eventually does; when a producer next calls
\* push, and whether a wakeup is spurious, is not up to the scheduler.
QFairness ==
    /\ \A p \in Producers : WF_vars(ProducerNotify(p))
    /\ \A c \in Consumers : WF_vars(ConsumerPop(c))
    /\ \A c \in Consumers : WF_vars(ConsumerLoop(c))

QueueSpec == QInit /\ [][QNext]_vars /\ QFairness

\* ------------------------------------------------------- the keypoint codec
SizeofFloat == 4
SizeofInt   == 4

\* Serialization.cpp line 7.
SIZEOF_SERIALIZED_KEYPOINT == (5 * SizeofFloat) + (2 * SizeofInt)

\* memcpy, were it to copy three of the four bytes.
Bytes4_truncated(w) ==
    <<w % 256, (w \div 256) % 256, (w \div 65536) % 256, 0>>

\* The bytes std::memcpy copies out of a 4-byte object whose bit pattern,
\* read as a two's-complement integer, is w: least significant byte first.
\* (\div rounds down and % is non-negative, so this is right for w < 0.)
Bytes4(w) ==
    <<w % 256, (w \div 256) % 256, (w \div 65536) % 256, (w \div 16777216) % 256>>

\* The loop body, were each record padded to 32 bytes.
SerializeOne_padded(kp) ==
    Bytes4(kp.x) \o Bytes4(kp.y) \o Bytes4(kp.size) \o Bytes4(kp.angle)
        \o Bytes4(kp.response) \o Bytes4(kp.octave) \o Bytes4(kp.class_id)
        \o Bytes4(0)

\* Serialization.cpp lines 17-36: the seven fields of one cv::KeyPoint.
SerializeOne(kp) ==
    Bytes4(kp.x) \o Bytes4(kp.y) \o Bytes4(kp.size) \o Bytes4(kp.angle)
        \o Bytes4(kp.response) \o Bytes4(kp.octave) \o Bytes4(kp.class_id)

\* Serialization.cpp lines 9-40.
RECURSIVE serialize_keypoints(_)
serialize_keypoints(keypoints) ==
    IF keypoints = <<>> THEN <<>>
    ELSE SerializeOne(Head(keypoints)) \o serialize_keypoints(Tail(keypoints))

\* The 4-byte object std::memcpy fills with bytes b, least significant
\* first, read as a two's-complement integer.
Word4(b) ==
    b[1] + (256 * b[2]) + (65536 * b[3])
        + (16777216 * (IF b[4] >= 128 THEN b[4] - 256 ELSE b[4]))

\* Serialization.cpp lines 53-72: the seven fields of keypoints[i], read
\* from the 28 bytes b.
DeserializeOne(b) ==
    [x        |-> Word4(SubSeq(b, 1, 4)),
     y        |-> Word4(SubSeq(b, 5, 8)),
     size     |-> Word4(SubSeq(b, 9, 12)),
     angle    |-> Word4(SubSeq(b, 13, 16)),
     response |-> Word4(SubSeq(b, 17, 20)),
     octave   |-> Word4(SubSeq(b, 21, 24)),
     class_id |-> Word4(SubSeq(b, 25, 28))]

\* Serialization.cpp line 43: the size test.
ValidSize_any(n) == TRUE

ValidSize(n) == n % SIZEOF_SERIALIZED_KEYPOINT = 0

\* Serialization.cpp lines 42-76: throws std::runtime_error on a size that
\* is not a whole number of records, else reads num_keypoints records.
deserialize_keypoints(data) ==
    IF ~ValidSize(Len(data))
    THEN [threw |-> TRUE, keypoints |-> <<>>, called |-> TRUE]
    ELSE LET num_keypoints == Len(data) \div SIZEOF_SERIALIZED_KEYPOINT
         IN [threw |-> FALSE,
             keypoints |->
                 [i \in 1..num_keypoints |->
                     DeserializeOne(SubSeq(data,
                         ((i - 1) * SIZEOF_SERIALIZED_KEYPOINT) + 1,
                         i * SIZEOF_SERIALIZED_KEYPOINT))],
             called |-> TRUE]

\* ------------------------------------------- CodecSpec: the codec alone
\* A vector of keypoints is serialized as a worker does (main.cpp line 76);
\* the buffer reaches the logger whole or cut short, as the third frame of
\* a message from any publisher can be; the logger deserializes it
\* (logger main, line 149).
CodecT == <<"codec", 0>>

\* Bit patterns of 4-byte fields: all ones (-1, a NaN as a float), a quiet
\* NaN, and the sign bit alone (INT_MIN, -0.0f).
FieldValues == {-1, 2143289344, (-2147483647) - 1}

\* A keypoint whose seven fields all differ: 1.0f, 2.0f, 4.0f, -4.0f,
\* 0.01f, an octave with layer and scale packed in, class_id 0.
DistinctKeyPoint ==
    [x |-> 1065353216, y |-> 1073741824, size |-> 1082130432, angle |-> -1065353216,
     response |-> 1008981770, octave |-> 16777727, class_id |-> 0]

SampleKeyPoints ==
    {DistinctKeyPoint} \cup
    {[x |-> a, y |-> b, size |-> b, angle |-> a, response |-> b, octave |-> a,
      class_id |-> b] : a, b \in FieldValues}

RECURSIVE SeqsUpTo(_, _)
SeqsUpTo(S, n) ==
    IF n = 0 THEN {<<>>}
    ELSE LET shorter == SeqsUpTo(S, n - 1)
         IN shorter \cup {Append(q, e) : q \in {r \in shorter : Len(r) = n - 1}, e \in S}

CodecInit ==
    /\ pc = [t \in {CodecT} |-> "serialize"]
    /\ queue_  = [q \in Queues |-> <<>>]
    /\ waiters = [q \in Queues |-> {}]
    /\ pushed  = [q \in Queues |-> EmptyBag]
    /\ popped  = [q \in Queues |-> EmptyBag]
    /\ process = "running"
    /\ inbound = <<>>
    /\ wire = <<>>
    /\ rcvmore = FALSE
    /\ name_msg = NoBytes
    /\ task = [w \in Workers |-> NoTask]
    /\ result = NoResult
    /\ sent = <<>>
    /\ log = {}
    /\ codec_in \in SeqsUpTo(SampleKeyPoints, MaxKeypoints)
    /\ codec_buf = NoBytes
    /\ codec_out = NotCalled

\* main.cpp line 76: kps_buffer = serialize_keypoints(keypoints).
Serialize ==
    /\ pc[CodecT] = "serialize"
    /\ codec_buf' = serialize_keypoints(codec_in)
    /\ pc' = [pc EXCEPT ![CodecT] = "transmit"]
    /\ UNCHANGED <<queueVars, extractorVars, codec_in, codec_out>>

\* The first n bytes of the buffer reach the logger (all of them when n is
\* its length).
Transmit(n) ==
    /\ pc[CodecT] = "transmit"
    /\ n \in 0..Len(codec_buf)
    /\ codec_buf' = SubSeq(codec_buf, 1, n)
    /\ pc' = [pc EXCEPT ![CodecT] = "deserialize"]
    /\ UNCHANGED <<queueVars, extractorVars, codec_in, codec_out>>

\* logger main, line 149: deserialize_keypoints(kps_vec).
Deserialize ==
    /\ pc[CodecT] = "deserialize"
    /\ codec_out' = deserialize_keypoints(codec_buf)
    /\ pc' = [pc EXCEPT ![CodecT] = "done"]
    /\ UNCHANGED <<queueVars, extractorVars, codec_in, codec_buf>>

CodecNext ==
    \/ Serialize
    \/ \E n \in 0..(MaxKeypoints * SIZEOF_SERIALIZED_KEYPOINT) : Transmit(n)
    \/ Deserialize

CodecSpec == CodecInit /\ [][CodecNext]_vars

\* ------------------------------------------------- images and the detector
\* The bytes of a frame are opaque to the extractor. A frame's data is
\* modelled by where it came from (message and position) and by what OpenCV
\* makes of it as an image: "good" decodes and is processed, "corrupt" makes
\* cv::imdecode return an empty Mat, "poison" decodes but makes a later
\* OpenCV call of the loop body throw cv::Exception.
ImageKinds == {"good", "corrupt", "poison"}

\* The bytes of frame k of inbound message m: three bytes, the last one
\* telling what OpenCV makes of them.
FrameData(m, k, kind) ==
    <<m, k, CASE kind = "good" -> 0 [] kind = "corrupt" -> 1 [] kind = "poison" -> 2>>

MsgOf(buf) == buf[1]
IdxOf(buf) == buf[2]
Decodes(buf) == Len(buf) = 3 /\ buf[3] # 1
Throws(buf)  == Len(buf) = 3 /\ buf[3] = 2

\* main.cpp line 61: cv::imdecode gives an empty Mat for bytes it cannot
\* decode, else the pixels (which depend on the bytes alone).
imdecode(buf) ==
    IF Decodes(buf) THEN [empty |-> FALSE, of |-> buf]
    ELSE [empty |-> TRUE, of |-> NoBytes]

\* main.cpp lines 69-73: cvtColor and sift->detect; some keypoints that
\* depend on the image alone. Fields are 32-bit patterns (floats as their
\* IEEE-754 bits), class_id is the -1 sentinel.
KeyPointOf(image, i) ==
    [x |-> 1065353216 + MsgOf(image.of), y |-> 1073741824 + IdxOf(image.of),
     size |-> 1082130432 + i, angle |-> -1082130432, response |-> 1008981770,
     octave |-> (i * 65536) + (IdxOf(image.of) * 256) + MsgOf(image.of),
     class_id |-> -1]

detect(image) ==
    [i \in 1..((MsgOf(image.of) + IdxOf(image.of)) % 3) |-> KeyPointOf(image, i)]

\* ------------------------------------------------------------ the extractor
LogLine(who, what, about) == [who |-> who, what |-> what, about |-> about]

Init ==
    /\ pc = [t \in {MainT, SenderT} \cup Workers |->
                IF t = MainT THEN "connect" ELSE "unstarted"]
    /\ queue_  = [q \in Queues |-> <<>>]
    /\ waiters = [q \in Queues |-> {}]
    /\ pushed  = [q \in Queues |-> EmptyBag]
    /\ popped  = [q \in Queues |-> EmptyBag]
    /\ process = "running"
    /\ inbound = <<>>
    /\ wire = <<>>
    /\ rcvmore = FALSE
    /\ name_msg = NoBytes
    /\ task = [w \in Workers |-> NoTask]
    /\ result = NoResult
    /\ sent = <<>>
    /\ log = {}
    /\ codec_in = <<>>
    /\ codec_buf = NoBytes
    /\ codec_out = NotCalled

\* The upstream publisher sends one multipart message of n frames (the
\* generator sends two, lines 357-358 of its main; another publisher on the
\* endpoint may send any number). The frames of a message arrive together.
Publish(n, kind) ==
    /\ process = "running"
    /\ pc[MainT] \notin {"connect", "launch"}
    /\ Len(inbound) < MaxMsgs
    /\ LET m == Len(inbound) + 1
           frames == [k \in 1..n |->
                        [data |-> FrameData(m, k, IF k = 1 THEN "corrupt" ELSE kind),
                         more |-> k < n]]
       IN /\ inbound' = Append(inbound, frames)
          /\ wire' = wire \o frames
    /\ UNCHANGED <<pc, queueVars, process, rcvmore, name_msg, task, result, sent, log,
                   codecVars>>

\* main, lines 141-151: connect and subscribe; on zmq::error_t, return -1.
MainConnect(ok) ==
    /\ process = "running"
    /\ pc[MainT] = "connect"
    /\ IF ok
       THEN /\ pc' = [pc EXCEPT ![MainT] = "launch"]
            /\ UNCHANGED <<process, log>>
       ELSE /\ log' = log \cup {LogLine(MainT, "Error connecting ZMQ subscriber", NoBytes)}
            /\ process' = "exited"
            /\ UNCHANGED pc
    /\ UNCHANGED <<queueVars, inbound, wire, rcvmore, name_msg, task, result, sent, codecVars>>

\* main, lines 153-174: the queues, the worker threads, the sender thread.
MainLaunch ==
    /\ process = "running"
    /\ pc[MainT] = "launch"
    /\ pc' = [t \in DOMAIN pc |->
                IF t = MainT THEN "recv_name"
                ELSE IF t = SenderT THEN "bind" ELSE "pop"]
    /\ UNCHANGED <<queueVars, extractorVars, codecVars>>

\* What subscriber.recv can do: deliver the next frame, return no value
\* (the case lines 183 and 192 test for), or throw zmq::error_t, which main
\* does not catch in its loop: std::terminate ends the process.
RecvOutcomes == {"frame", "nothing", "throw"}

Abort ==
    /\ process' = "aborted"
    /\ UNCHANGED <<pc, queueVars, inbound, wire, rcvmore, name_msg, task, result, sent, log, codecVars>>

\* main, line 185: !subscriber.get(zmq::sockopt::rcvmore) after part 1.
OnlyOnePart_unchecked(more) == FALSE

OnlyOnePart(more) == ~more

\* main, line 195: subscriber.get(zmq::sockopt::rcvmore) after part 2.
MoreThanTwoParts_always(more) == TRUE

MoreThanTwoParts(more) == more

\* main, lines 178-188: receive part 1, the filename.
MainRecvName(outcome) ==
    /\ process = "running"
    /\ pc[MainT] = "recv_name"
    /\ \/ /\ outcome = "frame"
          /\ wire # <<>>
          /\ wire' = Tail(wire)
          /\ rcvmore' = Head(wire).more
          /\ IF OnlyOnePart(Head(wire).more)
             THEN /\ name_msg' = NoBytes
                  /\ pc' = pc
                  /\ log' = log \cup {LogLine(MainT, "expected 2 parts, got 1", Head(wire).data)}
             ELSE /\ name_msg' = Head(wire).data
                  /\ pc' = [pc EXCEPT ![MainT] = "recv_img"]
                  /\ log' = log
          /\ UNCHANGED <<queueVars, process, inbound, task, result, sent, codecVars>>
       \/ /\ outcome = "nothing"
          /\ UNCHANGED vars
       \/ /\ outcome = "throw"
          /\ Abort

\* main, lines 190-212: receive part 2, the image; flush or push.
MainRecvImg(outcome) ==
    /\ process = "running"
    /\ pc[MainT] = "recv_img"
    /\ \/ /\ outcome = "frame"
          /\ wire # <<>>
          /\ wire' = Tail(wire)
          /\ rcvmore' = Head(wire).more
          /\ name_msg' = NoBytes
          /\ IF MoreThanTwoParts(Head(wire).more)
             THEN /\ log' = log \cup {LogLine(MainT, "received >2 parts", name_msg)}
                  /\ pc' = [pc EXCEPT ![MainT] = "flush"]
                  /\ UNCHANGED <<queue_, pushed>>
             ELSE /\ SafeQueue_push("work_queue", ImageTask(name_msg, Head(wire).data))
                  /\ pc' = [pc EXCEPT ![MainT] = "notify"]
                  /\ log' = log
          /\ UNCHANGED <<waiters, popped, process, inbound, task, result, sent, codecVars>>
       \/ /\ outcome = "nothing"
          /\ pc' = [pc EXCEPT ![MainT] = "recv_name"]
          /\ name_msg' = NoBytes
          /\ UNCHANGED <<queueVars, process, inbound, wire, rcvmore, task, result, sent, log, codecVars>>
       \/ /\ outcome = "throw"
          /\ Abort

\* main, lines 197-201: while rcvmore, receive and discard.
MainFlush(outcome) ==
    /\ process = "running"
    /\ pc[MainT] = "flush"
    /\ \/ /\ outcome = "frame"
          /\ wire # <<>>
          /\ wire' = Tail(wire)
          /\ rcvmore' = Head(wire).more
          /\ pc' = [pc EXCEPT ![MainT] = IF Head(wire).more THEN "flush" ELSE "recv_name"]
          /\ UNCHANGED <<queueVars, process, inbound, name_msg, task, result, sent, log, codecVars>>
       \/ /\ outcome = "nothing"
          /\ UNCHANGED vars
       \/ /\ outcome = "throw"
          /\ Abort

\* main, line 212: the notify_one of work_queue.push.
MainNotify ==
    /\ process = "running"
    /\ pc[MainT] = "notify"
    /\ SafeQueue_notify_one("work_queue")
    /\ pc' = [pc EXCEPT ![MainT] = "recv_name"]
    /\ UNCHANGED <<queue_, pushed, popped, extractorVars, codecVars>>

\* worker_thread, line 59: work_queue.pop(task).
WorkerPop(w) ==
    /\ process = "running"
    /\ SafeQueue_pop(w, "work_queue", "process")
    /\ task' = IF queue_["work_queue"] # <<>>
               THEN [task EXCEPT ![w] = Head(queue_["work_queue"])]
               ELSE task
    /\ UNCHANGED <<pushed, process, inbound, wire, rcvmore, name_msg, result, sent, log, codecVars>>

\* Where a worker goes after an item it could not decode (line 64,
\* continue) and after an exception (lines 90-92: the catch is outside the
\* while loop, so the function returns).
AfterDecodeFailure_returns == "done"

AfterDecodeFailure == "pop"

AfterException == "done"

\* worker_thread, lines 60-92: one pass of the loop body. After it the
\* worker's task is never read again before pop overwrites it (on success
\* its fields have been moved from), so it is forgotten here.
WorkerProcess(w) ==
    /\ process = "running"
    /\ pc[w] = "process"
    /\ LET image == imdecode(task[w].img_buffer) IN
       IF image.empty
       THEN /\ log' = log \cup {LogLine(w, "Failed to decode", task[w].filename)}
            /\ pc' = [pc EXCEPT ![w] = AfterDecodeFailure]
            /\ UNCHANGED <<queue_, pushed>>
       ELSE IF Throws(image.of)
       THEN /\ log' = log \cup {LogLine(w, "Error", task[w].filename)}
            /\ pc' = [pc EXCEPT ![w] = AfterException]
            /\ UNCHANGED <<queue_, pushed>>
       ELSE /\ SafeQueue_push("result_queue",
                   ProcessedTask(task[w], serialize_keypoints(detect(image))))
            /\ pc' = [pc EXCEPT ![w] = "notify"]
            /\ log' = log
    /\ task' = [task EXCEPT ![w] = NoTask]
    /\ UNCHANGED <<waiters, popped, process, inbound, wire, rcvmore, name_msg, result, sent, codecVars>>

\* worker_thread, line 84, were the worker to send on the publisher itself.
WorkerNotify_sending(w) ==
    /\ process = "running"
    /\ pc[w] = "notify"
    /\ SafeQueue_notify_one("result_queue")
    /\ pc' = [pc EXCEPT ![w] = "pop"]
    /\ sent' = Append(sent, [data |-> NoBytes, more |-> FALSE])
    /\ UNCHANGED <<queue_, pushed, popped, process, inbound, wire, rcvmore,
                   name_msg, task, result, log, codecVars>>

\* worker_thread, line 84: the notify_one of result_queue.push.
WorkerNotify(w) ==
    /\ process = "running"
    /\ pc[w] = "notify"
    /\ SafeQueue_notify_one("result_queue")
    /\ pc' = [pc EXCEPT ![w] = "pop"]
    /\ UNCHANGED <<queue_, pushed, popped, extractorVars, codecVars>>

\* sender_thread, lines 99-108: bind the publisher; on zmq::error_t, return.
SenderBind(ok) ==
    /\ process = "running"
    /\ pc[SenderT] = "bind"
    /\ IF ok
       THEN /\ pc' = [pc EXCEPT ![SenderT] = "pop"]
            /\ log' = log
       ELSE /\ pc' = [pc EXCEPT ![SenderT] = "done"]
            /\ log' = log \cup {LogLine(SenderT, "Error binding ZMQ publisher", NoBytes)}
    /\ UNCHANGED <<queueVars, process, inbound, wire, rcvmore, name_msg, task, result, sent, codecVars>>

\* sender_thread, line 112: result_queue.pop(result).
SenderPop ==
    /\ process = "running"
    /\ SafeQueue_pop(SenderT, "result_queue", "send_name")
    /\ result' = IF queue_["result_queue"] # <<>>
                 THEN Head(queue_["result_queue"])
                 ELSE result
    /\ UNCHANGED <<pushed, process, inbound, wire, rcvmore, name_msg, task, sent, log, codecVars>>

\* sender_thread, lines 115-127: the three parts, their flags, and where
\* the thread goes after each send.
SendPositions == {"send_name", "send_img", "send_kps"}

Part_image_first(pos) ==
    CASE pos = "send_name" ->
           [data |-> result.img_buffer, more |-> TRUE, next |-> "send_img"]
      [] pos = "send_img" ->
           [data |-> result.filename, more |-> TRUE, next |-> "send_kps"]
      [] pos = "send_kps" ->
           [data |-> result.keypoints_buffer, more |-> FALSE, next |-> "pop"]

Part(pos) ==
    CASE pos = "send_name" ->
           [data |-> result.filename, more |-> TRUE, next |-> "send_img"]
      [] pos = "send_img" ->
           [data |-> result.img_buffer, more |-> TRUE, next |-> "send_kps"]
      [] pos = "send_kps" ->
           [data |-> result.keypoints_buffer, more |-> FALSE, next |-> "pop"]

\* sender_thread, lines 125-133: one publisher.send. A send that fails
\* throws zmq::error_t; the catch is outside the while loop, so the
\* function returns. The result is not read again once its last part is
\* sent or the thread has left the loop, and is forgotten then.
SenderSend(ok) ==
    /\ process = "running"
    /\ pc[SenderT] \in SendPositions
    /\ LET part == Part(pc[SenderT]) IN
       IF ok
       THEN /\ sent' = Append(sent, [data |-> part.data, more |-> part.more])
            /\ pc' = [pc EXCEPT ![SenderT] = part.next]
            /\ log' = log
            /\ result' = IF part.next = "pop" THEN NoResult ELSE result
       ELSE /\ sent' = sent
            /\ pc' = [pc EXCEPT ![SenderT] = "done"]
            /\ log' = log \cup {LogLine(SenderT, "ZMQ error", result.filename)}
            /\ result' = NoResult
    /\ UNCHANGED <<queueVars, process, inbound, wire, rcvmore, name_msg, task, codecVars>>

Next ==
    \/ \E n \in 1..MaxFrames : \E kind \in ImageKinds : Publish(n, kind)
    \/ \E ok \in BOOLEAN : MainConnect(ok)
    \/ MainLaunch
    \/ \E outcome \in RecvOutcomes : MainRecvName(outcome)
    \/ \E outcome \in RecvOutcomes : MainRecvImg(outcome)
    \/ \E outcome \in RecvOutcomes : MainFlush(outcome)
    \/ MainNotify
    \/ \E w \in Workers : WorkerPop(w)
    \/ \E w \in Workers : WorkerProcess(w)
    \/ \E w \in Workers : WorkerNotify(w)
    \/ \E ok \in BOOLEAN : SenderBind(ok)
    \/ SenderPop
    \/ \E ok \in BOOLEAN : SenderSend(ok)
    \/ \E q \in Queues : SpuriousWakeup(q)

\* Every thread of the running process that can take a step eventually
\* takes one. What the transport does (a receive that returns nothing or
\* throws, a connect, bind or send that fails) and what the upstream
\* publishes is not up to the scheduler: a thread at a connect, bind or
\* send eventually makes the call, with either outcome.
Fairness ==
    /\ WF_vars(\E ok \in BOOLEAN : MainConnect(ok))
    /\ WF_vars(MainLaunch)
    /\ WF_vars(MainNotify)
    /\ WF_vars(MainRecvName("frame"))
    /\ WF_vars(MainRecvImg("frame"))
    /\ WF_vars(MainFlush("frame"))
    /\ \A w \in Workers : WF_vars(WorkerPop(w))
    /\ \A w \in Workers : WF_vars(WorkerProcess(w))
    /\ \A w \in Workers : WF_vars(WorkerNotify(w))
    /\ WF_vars(\E ok \in BOOLEAN : SenderBind(ok))
    /\ WF_vars(SenderPop)
    /\ WF_vars(\E ok \in BOOLEAN : SenderSend(ok))

Spec == Init /\ [][Next]_vars /\ Fairness

\* ------------------------------- OneWorkerSpec: the extractor on one core
\* main, lines 158-171, when std::thread::hardware_concurrency() is 1:
\* num_workers is 1 and one worker thread is started; then the sender.
MainLaunchOne ==
    /\ process = "running"
    /\ pc[MainT] = "launch"
    /\ pc' = [t \in DOMAIN pc |->
                IF t = MainT THEN "recv_name"
                ELSE IF t = SenderT THEN "bind"
                ELSE IF t = <<"worker", 0>> THEN "pop" ELSE pc[t]]
    /\ UNCHANGED <<queueVars, extractorVars, codecVars>>

OneWorkerNext ==
    \/ \E n \in 1..MaxFrames : \E kind \in ImageKinds : Publish(n, kind)
    \/ \E ok \in BOOLEAN : MainConnect(ok)
    \/ MainLaunchOne
    \/ \E outcome \in RecvOutcomes : MainRecvName(outcome)
    \/ \E outcome \in RecvOutcomes : MainRecvImg(outcome)
    \/ \E outcome \in RecvOutcomes : MainFlush(outcome)
    \/ MainNotify
    \/ \E w \in Workers : WorkerPop(w)
    \/ \E w \in Workers : WorkerProcess(w)
    \/ \E w \in Workers : WorkerNotify(w)
    \/ \E ok \in BOOLEAN : SenderBind(ok)
    \/ SenderPop
    \/ \E ok \in BOOLEAN : SenderSend(ok)
    \/ \E q \in Queues : SpuriousWakeup(q)

OneWorkerFairness ==
    /\ WF_vars(\E ok \in BOOLEAN : MainConnect(ok))
    /\ WF_vars(MainLaunchOne)
    /\ WF_vars(MainNotify)
    /\ WF_vars(MainRecvName("frame"))
    /\ WF_vars(MainRecvImg("frame"))
    /\ WF_vars(MainFlush("frame"))
    /\ \A w \in Workers : WF_vars(WorkerPop(w))
    /\ \A w \in Workers : WF_vars(WorkerProcess(w))
    /\ \A w \in Workers : WF_vars(WorkerNotify(w))
    /\ WF_vars(\E ok \in BOOLEAN : SenderBind(ok))
    /\ WF_vars(SenderPop)
    /\ WF_vars(\E ok \in BOOLEAN : SenderSend(ok))

OneWorkerSpec == Init /\ [][OneWorkerNext]_vars /\ OneWorkerFairness

\* ---------------------------------------------------- claims on QueueSpec
SeqToBag(s) == [v \in {s[i] : i \in DOMAIN s} |-> Cardinality({i \in DOMAIN s : s[i] = v})]

\* The values the pop calls of queue q returned, as a bag.
Returned(q) ==
    [v \in {e.item : e \in DOMAIN popped[q]} |->
        BagSum(popped[q], {e \in DOMAIN popped[q] : e.item = v})]

\* Every value pushed is in the queue or was returned, as many times as it
\* was pushed.
Conservation(q) == pushed[q] = SeqToBag(queue_[q]) (+) Returned(q)

\* C1: of N values pushed to one SafeQueue by concurrent producers, with
\* concurrent consumers calling pop, none is lost and none is returned twice
\* at any moment of any interleaving, and in the end exactly N pop calls
\* have returned.
C1_NoLossNoDuplication ==
    /\ [](/\ Conservation(TheQueue)
          /\ \A v \in DOMAIN Returned(TheQueue) : Returned(TheQueue)[v] = 1
          /\ BagCardinality(popped[TheQueue]) <= BagCardinality(pushed[TheQueue]))
    /\ <>[](BagCardinality(popped[TheQueue]) = BagCardinality(pushed[TheQueue]))

\* Two producers have pushed, and two consumers have each been given one of
\* the values.
C1_Witness ==
    /\ BagCardinality(pushed[TheQueue]) = MaxPush
    /\ BagCardinality(popped[TheQueue]) = MaxPush
    /\ Cardinality({v[1] : v \in DOMAIN pushed[TheQueue]}) >= 2
    /\ Cardinality({e.by : e \in DOMAIN popped[TheQueue]}) >= 2

\* A pop call returns only from a non-empty queue.
NoReturnWhileEmpty ==
    [][\A c \in Consumers :
          PopsBy(c)' # PopsBy(c) => queue_[TheQueue] # <<>>]_vars

\* A pop call made on a non-empty queue does not go to sleep.
NoWaitWhenNonEmpty ==
    [][\A c \in Consumers :
          (pc[c] = "pop" /\ queue_[TheQueue] # <<>>) => pc'[c] # "pop_wait"]_vars

\* C2, as stated: a pop call on an empty queue does not return while the
\* queue stays empty; once a push has occurred, that very call eventually
\* returns; a pop call on a non-empty queue returns without waiting.
C2_Original ==
    /\ NoReturnWhileEmpty
    /\ NoWaitWhenNonEmpty
    /\ \A c \in Consumers :
          (pc[c] = "pop_wait" /\ queue_[TheQueue] # <<>>)
              ~> (pc[c] = "returned_after_wait")

\* C2, amended: a pop call on an empty queue does not return while the
\* queue stays empty; once a push has occurred, the sleeping call eventually
\* returns unless other pop calls have emptied the queue again (a pushed
\* value never stays in the queue while a caller sleeps for ever); a pop
\* call on a non-empty queue returns without waiting.
C2_NoLostWakeup ==
    /\ NoReturnWhileEmpty
    /\ NoWaitWhenNonEmpty
    /\ \A c \in Consumers :
          (pc[c] = "pop_wait" /\ queue_[TheQueue] # <<>>)
              ~> (pc[c] = "returned_after_wait" \/ queue_[TheQueue] = <<>>)

\* A pop call that slept on the empty queue has returned with a value.
C2_Witness ==
    \E c \in Consumers : pc[c] = "returned_after_wait"

\* --------------------------------------------------------- claims on Spec
WorkItems   == DOMAIN pushed["work_queue"]
ResultItems == DOMAIN pushed["result_queue"]

\* The frames of message m that the subscriber has not received yet.
Pending(m) == {i \in DOMAIN wire : MsgOf(wire[i].data) = m}

\* The work items built from a frame of message m.
ItemsFrom(m) == {t \in WorkItems : MsgOf(t.filename) = m \/ MsgOf(t.img_buffer) = m}

\* C3: a worker in which the processing of an item raised an exception has
\* caught it and is still in its loop, popping the next item.
C3_WorkerSurvivesException ==
    \A w \in Workers :
        (\E l \in log : l.who = w /\ l.what = "Error") => pc[w] # "done"

\* C4: after a send has failed and the failure is logged, the sender thread
\* is still in its loop, popping and emitting the results pushed later.
C4_SenderSurvivesSendFailure ==
    (\E l \in log : l.who = SenderT /\ l.what = "ZMQ error") => pc[SenderT] # "done"

\* C5: no work item is ever pushed for an inbound message of three or more
\* frames, whatever the individual receive calls do.
C5_NoItemFromLongMessage ==
    \A m \in DOMAIN inbound : Len(inbound[m]) >= 3 => ItemsFrom(m) = {}

\* C6: once the receiver has taken the frame of a one-frame message it has
\* logged the warning and pushes no work item for the message, then or
\* later; and the step that takes the frame leaves main at the head of its
\* receive loop, running.
C6_SingleFrameDropped ==
    /\ [](\A m \in DOMAIN inbound :
             (Len(inbound[m]) = 1 /\ Pending(m) = {}) =>
                 /\ LogLine(MainT, "expected 2 parts, got 1", inbound[m][1].data) \in log
                 /\ ItemsFrom(m) = {})
    /\ [][\A m \in DOMAIN inbound :
             (Len(inbound[m]) = 1 /\ Pending(m) # {} /\ Pending(m)' = {}) =>
                 (pc'[MainT] = "recv_name" /\ process' = "running")]_vars

\* A one-frame message was dropped and the message after it was received
\* and enqueued.
C6_Witness ==
    /\ Len(inbound) = 2
    /\ Len(inbound[1]) = 1
    /\ LogLine(MainT, "expected 2 parts, got 1", inbound[1][1].data) \in log
    /\ ItemsFrom(2) # {}

\* C7: once its loop has started the receiver never stops: whatever the
\* receive calls have done, main is at one of the positions of its loop
\* and the process is running.
C7_ReceiverNeverExits ==
    pc[MainT] \notin {"connect", "launch"} => process = "running"

\* The three frames the sender emits for result r.
FramesOf(r) ==
    <<[data |-> r.filename, more |-> TRUE],
      [data |-> r.img_buffer, more |-> TRUE],
      [data |-> r.keypoints_buffer, more |-> FALSE]>>

\* The results the sender has popped.
SenderItems == {e.item : e \in DOMAIN popped["result_queue"]}

\* The i-th run of three frames of the outbound stream.
Group(i) == SubSeq(sent, (3 * i) - 2, 3 * i)

\* The frames after the last complete run of three.
Rest == SubSeq(sent, Len(sent) - (Len(sent) % 3) + 1, Len(sent))

\* The outbound stream is made of runs of three frames, each the filename,
\* image and feature frames of one popped result, no result twice, then
\* at most an unfinished run that begins one more result.
Framed ==
    /\ \A i \in 1..(Len(sent) \div 3) : \E r \in SenderItems : Group(i) = FramesOf(r)
    /\ \A i, j \in 1..(Len(sent) \div 3) : Group(i) = Group(j) => i = j
    /\ \/ Rest = <<>>
       \/ \E r \in SenderItems :
             /\ Rest = SubSeq(FramesOf(r), 1, Len(sent) % 3)
             /\ \A i \in 1..(Len(sent) \div 3) : Group(i) # FramesOf(r)

C9_OutboundFromOneInbound ==
    \A i \in 1..(Len(sent) \div 3) :
        \E m \in DOMAIN inbound :
            /\ Len(inbound[m]) = 2
            /\ Group(i)[1].data = inbound[m][1].data
            /\ Group(i)[2].data = inbound[m][2].data
            /\ Group(i)[3].data =
                  serialize_keypoints(detect(imdecode(inbound[m][2].data)))

\* C10: a worker whose item does not decode logs it, pushes nothing, and
\* is back at pop with the process running; no result is ever pushed, and
\* no frame ever sent, for a payload that does not decode.
C10_CorruptItemDiscarded ==
    /\ [](\A t \in WorkItems :
             imdecode(t.img_buffer).empty =>
                 /\ \A r \in ResultItems :
                        r.filename # t.filename /\ r.img_buffer # t.img_buffer
                 /\ \A i \in DOMAIN sent : sent[i].data \notin {t.filename, t.img_buffer})
    /\ [][\A w \in Workers :
             (/\ pc[w] = "process"
              /\ imdecode(task[w].img_buffer).empty
              /\ pc'[w] # "process") =>
                 /\ pc'[w] = "pop"
                 /\ process' = "running"
                 /\ LogLine(w, "Failed to decode", task[w].filename) \in log'
                 /\ pushed' = pushed]_vars

\* A worker that discarded an item it could not decode has popped the next
\* item.
C10_Witness ==
    \E w \in Workers :
        /\ \E l \in log : l.who = w /\ l.what = "Failed to decode"
        /\ pc[w] = "process"
        /\ ~imdecode(task[w].img_buffer).empty

\* The result a worker makes of inbound message m when m has two frames and
\* its image is processed.
ResultOf(m) ==
    ProcessedTask(ImageTask(inbound[m][1].data, inbound[m][2].data),
                  serialize_keypoints(detect(imdecode(inbound[m][2].data))))

\* Inbound message m is well formed and its image decodes and is processed.
WellFormed(m) ==
    /\ m \in DOMAIN inbound
    /\ Len(inbound[m]) = 2
    /\ Decodes(inbound[m][2].data)
    /\ ~Throws(inbound[m][2].data)

\* The outbound messages made of message m.
Emissions(m) == {i \in 1..(Len(sent) \div 3) : Group(i) = FramesOf(ResultOf(m))}

\* Message m is well formed and exactly one outbound message is made of it.
EmittedOnce(m) == WellFormed(m) /\ Cardinality(Emissions(m)) = 1

\* The receiver is between two inbound messages and the next frame on the
\* wire is not the first frame of a message: a receive of part 2 returned
\* without data and the loop restarted.
Desynchronised ==
    pc[MainT] = "recv_name" /\ wire # <<>> /\ IdxOf(Head(wire).data) # 1

\* No transport call has failed and no item has failed: connect and bind
\* succeeded, no receive threw or returned without its frame, no send threw,
\* no worker caught an exception.
NoFailure ==
    /\ process = "running"
    /\ ~Desynchronised
    /\ \A l \in log : l.what \notin {"Error binding ZMQ publisher", "ZMQ error", "Error"}

\* C11: two well-formed, decodable messages published one after the other
\* are each eventually emitted as one outbound message, in either order,
\* when the threads are scheduled fairly and no transport call fails; and
\* no message is ever emitted twice.
C11_BothEventuallyEmitted ==
    /\ [](\A m \in DOMAIN inbound : WellFormed(m) => Cardinality(Emissions(m)) <= 1)
    /\ \A m \in 1..(MaxMsgs - 1) :
          []NoFailure =>
              ((WellFormed(m) /\ WellFormed(m + 1))
                  ~> (EmittedOnce(m) /\ EmittedOnce(m + 1)))

\* Two well-formed messages were published back to back and each has been
\* emitted once.
C11_Witness ==
    /\ EmittedOnce(1)
    /\ EmittedOnce(2)
    /\ NoFailure

\* The number of positions of sequence s that hold x.
Count(s, x) == Cardinality({i \in DOMAIN s : s[i] = x})

\* Result r was made of work item t (lines 80-81 move the filename and the
\* image bytes from the one to the other).
IsResultOf(r, t) == r.filename = t.filename /\ r.img_buffer = t.img_buffer

\* The places where work item t, or the result made of it, is: in the
\* work queue, in a worker's task, in the result queue, in the sender's
\* result, in the outbound stream as a complete message, or dropped (the
\* worker or the sender logged that it gave the item up).
InWorkQueue(t)   == Count(queue_["work_queue"], t)
HeldByWorkers(t) == Cardinality({w \in Workers : task[w] = t})
InResultQueue(t) ==
    Cardinality({i \in DOMAIN queue_["result_queue"] :
                    IsResultOf(queue_["result_queue"][i], t)})
HeldBySender(t)  == IF IsResultOf(result, t) THEN 1 ELSE 0
Emitted(t) ==
    Cardinality({i \in 1..(Len(sent) \div 3) :
                    Group(i)[1].data = t.filename /\ Group(i)[2].data = t.img_buffer})
Dropped(t) ==
    Cardinality({l \in log : /\ l.about = t.filename
                             /\ l.what \in {"Failed to decode", "Error", "ZMQ error"}})

\* C12: at every instant every work item that was accepted, or the result
\* made of it, is in exactly one place: one of the two queues, the hands of
\* one worker, the hands of the sender, emitted, or dropped.
C12_ExactlyOneHolder ==
    \A t \in WorkItems :
        /\ pushed["work_queue"][t] = 1
        /\ InWorkQueue(t) + HeldByWorkers(t) + InResultQueue(t)
              + HeldBySender(t) + Emitted(t) + Dropped(t) = 1

\* One item is in a worker's hands while the result of another is in the
\* sender's hands, partly sent.
C12_Witness ==
    \E t, u \in WorkItems :
        /\ t # u
        /\ HeldByWorkers(t) = 1
        /\ HeldBySender(u) = 1
        /\ pc[SenderT] = "send_img"

\* The failure of an endpoint at startup has been reported.
ConnectFailed == LogLine(MainT, "Error connecting ZMQ subscriber", NoBytes) \in log
BindFailed    == LogLine(SenderT, "Error binding ZMQ publisher", NoBytes) \in log

\* C13: a process whose connect or bind has failed, and has reported it, has
\* exited: main and the workers do not run on without a publisher.
C13_EndpointFailureIsFatal ==
    (ConnectFailed \/ BindFailed) => process = "exited"

\* A step that uses the subscriber: a frame is received (and the socket's
\* rcvmore flag set from it), or the connect is made.
UsesSubscriber ==
    \/ Len(wire') < Len(wire)
    \/ rcvmore' # rcvmore
    \/ pc[MainT] = "connect" /\ (pc'[MainT] # "connect" \/ process' # process)

\* A step that uses the publisher: the bind is made, or a frame is sent.
UsesPublisher ==
    \/ sent' # sent
    \/ pc[SenderT] = "bind" /\ pc'[SenderT] # "bind"

\* A step of main alone, of the sender alone: no other thread moves.
StepOfMain ==
    /\ pc[MainT] \in {"connect", "recv_name", "recv_img", "flush"}
    /\ \A t \in Workers \cup {SenderT} : pc'[t] = pc[t]
    /\ task' = task /\ result' = result

StepOfSender ==
    /\ pc[SenderT] \in SendPositions \cup {"bind"}
    /\ \A t \in Workers \cup {MainT} : pc'[t] = pc[t]
    /\ task' = task /\ name_msg' = name_msg

\* C14: every step that uses the subscriber (connect, receive, rcvmore) is
\* a step of main, every step that uses the publisher (bind, send) is a
\* step of the sender thread, and no step of a worker uses either.
C14_EndpointsSingleThreaded ==
    [][/\ UsesSubscriber => StepOfMain
       /\ UsesPublisher => StepOfSender
       /\ (\E w \in Workers : pc'[w] # pc[w]) => (~UsesSubscriber /\ ~UsesPublisher)]_vars

\* main is in the middle of receiving a message while the sender is in the
\* middle of sending one.
C14_Witness ==
    /\ pc[MainT] = "recv_img"
    /\ rcvmore
    /\ pc[SenderT] = "send_kps"
    /\ Len(sent) = 2

\* ---------------------------------------------- more claims on QueueSpec
\* The pop calls that return in the step, and the values returned before it.
ReturningNow == DOMAIN popped'[TheQueue] \ DOMAIN popped[TheQueue]
ReturnedBefore == {e.item : e \in DOMAIN popped[TheQueue]}

\* C15: two values pushed to one SafeQueue by the same producer are
\* returned by pop in the order they were pushed, whatever other producers
\* and consumers do: when the k-th value of a producer is returned, its
\* earlier values have been returned already; and in the queue the values
\* of one producer stand in the order they were pushed.
C15_FifoPerProducer ==
    /\ [](\A i, j \in DOMAIN queue_[TheQueue] :
             (i < j /\ queue_[TheQueue][i][1] = queue_[TheQueue][j][1])
                 => queue_[TheQueue][i][2] < queue_[TheQueue][j][2])
    /\ [][\A e \in ReturningNow :
             \A k \in 1..(e.item[2] - 1) : <<e.item[1], k>> \in ReturnedBefore]_vars

\* One producer pushed two values and they were returned to two different
\* consumers.
C15_Witness ==
    \E p \in Producers : \E c, d \in Consumers :
        /\ c # d
        /\ [by |-> c, item |-> <<p, 1>>] \in DOMAIN popped[TheQueue]
        /\ [by |-> d, item |-> <<p, 2>>] \in DOMAIN popped[TheQueue]

\* The threads the step wakes from cond_.wait on the queue.
Woken == waiters[TheQueue] \ waiters'[TheQueue]

\* C16: the notification of a push wakes exactly one of the callers asleep
\* in pop when there is one, and none otherwise; no step makes more than one
\* pop call return, and the pop calls that have returned are never more
\* than the pushes made, so one push makes at most one sleeping pop return.
C16_PushWakesExactlyOne ==
    /\ [][\A p \in Producers :
             (pc[p] = "notify" /\ pc'[p] = "idle") =>
                 /\ waiters'[TheQueue] \subseteq waiters[TheQueue]
                 /\ Cardinality(Woken) = IF waiters[TheQueue] = {} THEN 0 ELSE 1]_vars
    /\ [][BagCardinality(popped'[TheQueue]) <= BagCardinality(popped[TheQueue]) + 1]_vars
    /\ [](BagCardinality(popped[TheQueue]) <= BagCardinality(pushed[TheQueue]))

\* Two callers were asleep in pop, one push was made and notified: one of
\* them has returned with the value and the other is still asleep.
C16_Witness ==
    \E c, d \in Consumers :
        /\ pc[c] = "returned_after_wait"
        /\ pc[d] = "pop_wait" /\ d \in waiters[TheQueue]
        /\ BagCardinality(pushed[TheQueue]) = 1
        /\ \A p \in Producers : pc[p] = "idle"

\* -------------------------------------------------- more claims on Spec
\* The inbound message whose frame is the filename of the i-th outbound
\* message; main accepts work items in the order of their messages.
SourceOf(i) == MsgOf(Group(i)[1].data)

\* The workers that popped a work item with the filename of the i-th
\* outbound message.
PoppersOf(i) ==
    {e.by : e \in {f \in DOMAIN popped["work_queue"] : f.item.filename = Group(i)[1].data}}

\* The i-th and j-th outbound messages are in the opposite order to the
\* one in which main accepted their items.
Reversed(i, j) == i < j /\ SourceOf(i) > SourceOf(j)

\* C17: outbound order is not tied to inbound order once more than one
\* worker is active: two items accepted in the order A, B can be emitted in
\* the order B, A (C17_Witness is such a state), and whenever that happens
\* the two items were processed by two different workers.
C17_ReorderingAcrossWorkers ==
    \A i, j \in 1..(Len(sent) \div 3) :
        Reversed(i, j) => PoppersOf(i) \cap PoppersOf(j) = {}

\* The second message the receiver accepted has been emitted before the
\* first.
C17_Witness ==
    /\ Len(sent) = 6
    /\ Reversed(1, 2)
    /\ WellFormed(1) /\ WellFormed(2)

\* ---------------------------------------------------- claims on CodecSpec
\* The buffer that reached deserialize_keypoints is the whole of what
\* serialize_keypoints returned.
Intact == codec_buf = serialize_keypoints(codec_in)

\* C18: deserialize_keypoints(serialize_keypoints(r)) is r, for every
\* sequence r of keypoints: no exception, as many records, in the same
\* order, each of the seven fields with the bits it had.
C18_RoundTrip ==
    (pc[CodecT] = "done" /\ Intact) =>
        /\ ~codec_out.threw
        /\ Len(codec_out.keypoints) = Len(codec_in)
        /\ \A i \in DOMAIN codec_in :
              /\ codec_out.keypoints[i].x = codec_in[i].x
              /\ codec_out.keypoints[i].y = codec_in[i].y
              /\ codec_out.keypoints[i].size = codec_in[i].size
              /\ codec_out.keypoints[i].angle = codec_in[i].angle
              /\ codec_out.keypoints[i].response = codec_in[i].response
              /\ codec_out.keypoints[i].octave = codec_in[i].octave
              /\ codec_out.keypoints[i].class_id = codec_in[i].class_id
        /\ codec_out.keypoints = codec_in

\* Two different keypoints, one of them with a negative field, have gone
\* through serialize_keypoints and deserialize_keypoints.
C18_Witness ==
    /\ pc[CodecT] = "done"
    /\ Intact
    /\ Len(codec_in) = 2
    /\ codec_in[1] = DistinctKeyPoint
    /\ codec_in[2].class_id = -1
    /\ codec_out.keypoints = codec_in

\* C19: deserialize_keypoints throws and returns no records on every
\* buffer whose length is not a multiple of 28; on every buffer whose
\* length is one, the empty buffer included, it returns length / 28
\* records.
C19_SizeCheck ==
    pc[CodecT] = "done" =>
        IF Len(codec_buf) % 28 # 0
        THEN codec_out.threw /\ codec_out.keypoints = <<>>
        ELSE ~codec_out.threw /\ Len(codec_out.keypoints) = Len(codec_buf) \div 28

\* A buffer of more than one record and less than two was rejected.
C19_Witness ==
    /\ pc[CodecT] = "done"
    /\ Len(codec_buf) > 28
    /\ Len(codec_buf) % 28 # 0
    /\ codec_out.threw

\* C20: serialize_keypoints of n records returns exactly 28 * n bytes,
\* record i in the i-th run of 28 bytes, nothing before, between or after
\* (so the empty vector gives the empty buffer); a result made with the
\* buffer has a last frame whose length is a multiple of 28, and so has
\* every last frame the sender has sent.
C20_BufferLayout ==
    /\ pc[CodecT] = "transmit" =>
          /\ Len(codec_buf) = 28 * Len(codec_in)
          /\ \A i \in DOMAIN codec_in :
                SubSeq(codec_buf, (28 * (i - 1)) + 1, 28 * i) = SerializeOne(codec_in[i])
          /\ codec_in = <<>> => codec_buf = <<>>
          /\ LET part3 == FramesOf(ProcessedTask(NoTask, codec_buf))[3]
             IN ~part3.more /\ Len(part3.data) % 28 = 0
    /\ \A i \in DOMAIN sent : ~sent[i].more => Len(sent[i].data) % 28 = 0

\* Two keypoints have been serialized into 56 bytes.
C20_Witness ==
    /\ pc[CodecT] = "transmit"
    /\ Len(codec_in) = 2
    /\ codec_in[1] # codec_in[2]
    /\ Len(codec_buf) = 56

\* ------------------------------------------------ last claims on Spec
\* C21: every work item pushed to the work queue has as filename the first
\* frame, and as image the second frame, of one inbound message of exactly
\* two frames, whatever the individual receive calls did.
C21_ItemFromOneTwoFrameMessage ==
    \A t \in WorkItems :
        \E m \in DOMAIN inbound :
            /\ Len(inbound[m]) = 2
            /\ t.filename = inbound[m][1].data
            /\ t.img_buffer = inbound[m][2].data

\* ------------------------------------------------ claims on OneWorkerSpec
\* The worker threads that have been started.
Started == {w \in Workers : pc[w] # "unstarted"}

\* C22: with exactly one worker thread the sender emits the outbound
\* messages in the order in which main accepted their inbound messages:
\* of two outbound messages the earlier is made of the earlier inbound
\* message. (It holds whether or not other items failed on the way.)
C22_OneWorkerKeepsOrder ==
    /\ Cardinality(Started) <= 1
    /\ \A i, j \in 1..(Len(sent) \div 3) : i < j => SourceOf(i) < SourceOf(j)

\* With one worker started and no failure, two messages were accepted
\* and both emitted, the first one first.
C22_Witness ==
    /\ Started = {<<"worker", 0>>}
    /\ NoFailure
    /\ EmittedOnce(1) /\ EmittedOnce(2)
    /\ SourceOf(1) = 1 /\ SourceOf(2) = 2

====
